---- MODULE Spec2Model ----
(***************************************************************************)
(* Workflow orchestration engine of the ADK:                               *)
(*   adk/workflows/orchestration_engine.py  (AgentOrchestrator)            *)
(*   adk/agents/base_agent.py               (BaseAgent.process_task)       *)
(*                                                                         *)
(* One behaviour is one execute_workflow call on a registered workflow.    *)
(* The atomic steps are the stretches of code between two suspension       *)
(* points of the event loop (await validate/execute, await sleep, await    *)
(* gather).                                                                *)
(***************************************************************************)
EXTENDS Integers, Sequences, FiniteSets, TLC

VARIABLES
    workflow,           \* the registered Workflow: [steps, parallel_execution]
    status,             \* BaseAgent.status of every registered agent
    task_history,       \* BaseAgent.task_history of every registered agent
    pc,                 \* position of execute_workflow
    results,            \* _execute_parallel/_execute_sequential: results dict
    completed_steps,    \* _execute_parallel: completed_steps
    ready_steps,        \* _execute_parallel: ready_steps of the wave in flight
    idx,                \* _execute_sequential: position of the for loop
    spc,                \* position of every step's _execute_step coroutine
    retries,            \* _execute_step: retries
    result,             \* _execute_step: result (last process_task return value)
    raised,             \* the exception _execute_step raised, if any
    task,               \* _execute_step: the AgentTask built for the step
    attempts,           \* number of process_task calls made for the step
    waits,              \* the asyncio.sleep durations of the step, in order
    execution_history,  \* AgentOrchestrator.execution_history
    workflow_id,        \* execute_workflow: the workflow_id argument
    propagated,         \* the exception execute_workflow raised to its caller
    behaviour,          \* what the workers of the run do (free, or scripted)
    now,                \* datetime.now()
    calls,              \* the process_task calls made directly on an agent,
                        \* or the receive_message call in progress, or the
                        \* coordinate_agents call in progress
    message_queue,      \* BaseAgent.message_queue of every registered agent
    broadcast           \* position and locals of broadcast_message

\* the variables of one execute_workflow call
callVars == <<workflow_id, propagated>>

\* the variables the orchestrator's run does not touch
sideVars == <<behaviour, now, calls, message_queue, broadcast>>

vars == <<workflow, status, task_history, pc, results, completed_steps,
          ready_steps, idx, spc, retries, result, raised, task, attempts, waits,
          execution_history, workflow_id, propagated, behaviour, now, calls,
          message_queue, broadcast>>

-----------------------------------------------------------------------------
(* Bounds of the model *)

\* max_retries of a step ranges over 0..MaxRetries
MaxRetries == 2

\* the number of process_task calls made directly on one agent
MaxCalls == 2

\* the number of broadcast_message calls
MaxBroadcasts == 2

\* the number of messages in the mailboxes that send_message fills
MaxMessages == 2

\* the clock stops at MaxTime
MaxTime == 2

\* the largest limit asked of get_execution_history
MaxLimit == 3

\* confidence is a float in [0,1]; the model counts it in units of 1/ConfScale
ConfScale == 2

-----------------------------------------------------------------------------
(* Values *)

IDLE == "idle"
RUNNING == "running"
SUCCESS == "success"
FAILED == "failed"
TIMEOUT == "timeout"

\* Python's None
None == "None"

\* the agents registered with the orchestrator, and an id registered nowhere
Agents == {"w1", "w2", "w3"}
UnknownAgent == "wx"

\* the step ids of the workflows, in declaration order
StepIds == <<"s1", "s2", "s3">>
NumSteps == Len(StepIds)
Steps == 1..NumSteps
\* a step id no step carries
UnknownStep == "s0"

\* the shared context handed to execute_workflow
SharedContext == (<<"request", "">> :> "sku-1")

\* the key f"{agent_id}_result" of a dependency's entry in the task context
ResultKey(agent_id) == <<agent_id, "_result">>

\* what a worker's validate_input/execute pair can do in one attempt:
\* validate_input refuses the parameters, or execute returns a result of
\* some confidence, raises, or raises asyncio.TimeoutError
Confidences == 1..ConfScale
Outcomes(parameters) ==
    IF parameters = "invalid"
    THEN [kind : {"invalid"}, confidence : {0}]
    ELSE [kind : {"ok"}, confidence : Confidences]
         \cup [kind : {"raise", "timeout"}, confidence : {0}]

-----------------------------------------------------------------------------
(* Python dicts, in insertion order: a sequence of <<key, value>> *)

DictKeys(d) == {d[i][1] : i \in DOMAIN d}
DictHas(d, k) == k \in DictKeys(d)
DictGet(d, k) == d[CHOOSE i \in DOMAIN d : d[i][1] = k][2]
DictSet(d, k, v) ==
    IF DictHas(d, k)
    THEN [i \in DOMAIN d |-> IF d[i][1] = k THEN <<k, v>> ELSE d[i]]
    ELSE Append(d, <<k, v>>)
DictValues(d) == [i \in DOMAIN d |-> d[i][2]]

RECURSIVE SumSeq(_)
SumSeq(s) == IF s = <<>> THEN 0 ELSE Head(s) + SumSeq(Tail(s))

-----------------------------------------------------------------------------
(* The workflows the orchestrator is run on *)

\* depends_on of the three steps (at most two steps of a wave run at once)
DepShapes == {
    <<{}, {"s1"}, {"s2"}>>,         \* a chain
    <<{}, {}, {"s1", "s2"}>>,       \* fan-in
    <<{}, {"s1"}, {"s1"}>>,         \* fan-out
    <<{"s2"}, {}, {"s1"}>>,         \* the list order does not respect depends_on
    <<{}, {"s3"}, {"s2"}>>,         \* a cycle
    <<{}, {UnknownStep}, {"s2"}>>   \* a dependency on a step that does not exist
}

\* agent_id of the three steps
AgentMaps == {
    <<"w1", "w2", "w3">>,
    <<"w1", "w1", "w2">>,           \* two steps bound to one agent
    <<"w1", "w2", "w1">>,
    <<"w1", UnknownAgent, "w2">>    \* a step bound to an unregistered agent
}

\* optional of the three steps
OptionalMaps == {
    <<FALSE, FALSE, FALSE>>,
    <<TRUE, TRUE, TRUE>>,
    <<TRUE, FALSE, FALSE>>,
    <<FALSE, TRUE, FALSE>>
}

\* retry_on_failure, max_retries and parameters: one step of the workflow
\* takes any policy, the other steps do not retry and carry parameters their
\* agent accepts. A worker's validate_input decides on the task's parameters
\* (SupplyAgentImpl.validate_input), so a step's parameters are valid or not
RetryPolicies ==
    [retry_on_failure : {TRUE}, max_retries : 0..MaxRetries, parameters : {"valid"}]
    \cup [retry_on_failure : BOOLEAN, max_retries : {MaxRetries},
          parameters : {"valid", "invalid"}]
NoRetry ==
    [retry_on_failure |-> FALSE, max_retries |-> MaxRetries, parameters |-> "valid"]
RetryMaps ==
    {[i \in Steps |-> IF i = k THEN pol ELSE NoRetry] :
        k \in Steps, pol \in RetryPolicies}

WorkflowStep(i, deps, ag, opt, pol) ==
    [step_id |-> StepIds[i],
     agent_id |-> ag[i],
     parameters |-> pol[i].parameters,
     depends_on |-> deps[i],
     optional |-> opt[i],
     retry_on_failure |-> pol[i].retry_on_failure,
     max_retries |-> pol[i].max_retries]

Workflows ==
    {[steps |-> [i \in Steps |-> WorkflowStep(i, deps, ag, opt, pol)],
      parallel_execution |-> par] :
        deps \in DepShapes, ag \in AgentMaps, opt \in OptionalMaps,
        pol \in RetryMaps, par \in BOOLEAN}

\* the index of the step carrying a step id (0 when there is none)
StepOf(step_id) ==
    IF \E i \in Steps : StepIds[i] = step_id
    THEN CHOOSE i \in Steps : StepIds[i] = step_id
    ELSE 0

-----------------------------------------------------------------------------
(* AgentResult, AgentTask, OrchestrationResult *)

AgentResult(agent_id, task_id, st, payload, error, confidence) ==
    [agent_id |-> agent_id, task_id |-> task_id, status |-> st,
     result |-> payload, error |-> error, confidence |-> confidence]

NoResult == AgentResult(None, None, None, <<>>, None, 0)

AgentTask(task_id, parameters, context) ==
    [task_id |-> task_id, parameters |-> parameters, context |-> context]

NoTask == AgentTask(None, None, <<>>)

OrchestrationResult(st, agent_results, overall_confidence, errors) ==
    [workflow_id |-> workflow_id, status |-> st, agent_results |-> agent_results,
     overall_confidence |-> overall_confidence, errors |-> errors]

\* str(e) of the exceptions the engine raises
AgentNotFound(agent_id) == <<"Agent not found", agent_id>>
RequiredStepFailed(step_id, error) == <<"Required step failed", step_id, error>>
WorkflowNotFound(id) == <<"Workflow not found", id>>
NoException == <<>>

\* the keys of AgentOrchestrator.workflows, and an id registered nowhere
RegisteredWorkflows == {"wf"}
UnknownWorkflow == "wf0"
WorkflowIds == RegisteredWorkflows \cup {UnknownWorkflow}

\* the workers of a run behave freely: any outcome at every attempt
FreeBehaviour == [free |-> TRUE, confidence |-> [s \in Steps |-> 0]]

\* no broadcast_message call has been made
NoBroadcast ==
    [pc |-> "idle", no |-> 0, sender_id |-> None, payload |-> None,
     given |-> FALSE, targets |-> <<>>, failed |-> {}]

\* the variables outside the orchestrator's run, at rest
SideInit ==
    /\ now = 0
    /\ calls = <<>>
    /\ message_queue = [a \in Agents |-> <<>>]
    /\ broadcast = NoBroadcast

-----------------------------------------------------------------------------
Init ==
    /\ workflow \in Workflows
    /\ status = [a \in Agents |-> IDLE]
    /\ task_history = [a \in Agents |-> <<>>]
    /\ pc = "idle"
    /\ results = <<>>
    /\ completed_steps = {}
    /\ ready_steps = <<>>
    /\ idx = 1
    /\ spc = [s \in Steps |-> "pending"]
    /\ retries = [s \in Steps |-> 0]
    /\ result = [s \in Steps |-> NoResult]
    /\ raised = [s \in Steps |-> NoException]
    /\ task = [s \in Steps |-> NoTask]
    /\ attempts = [s \in Steps |-> 0]
    /\ waits = [s \in Steps |-> <<>>]
    /\ execution_history = <<>>
    /\ workflow_id = None
    /\ propagated = NoException
    /\ behaviour = FreeBehaviour
    /\ SideInit

-----------------------------------------------------------------------------
(* BaseAgent.process_task *)

\* the payload a worker's execute returns
Payload(task_id, confidence) == <<task_id, confidence>>

\* the AgentResult process_task returns for one behaviour of the worker
ProcessTaskResult(agent_id, task_id, outcome) ==
    CASE outcome.kind = "ok" ->
            AgentResult(agent_id, task_id, SUCCESS,
                        Payload(task_id, outcome.confidence), None,
                        outcome.confidence)
      [] outcome.kind = "timeout" ->
            AgentResult(agent_id, task_id, TIMEOUT, <<>>,
                        "Task execution timeout", 0)
      [] outcome.kind = "invalid" ->
            AgentResult(agent_id, task_id, FAILED, <<>>,
                        "Invalid task input", 0)
      [] OTHER ->
            AgentResult(agent_id, task_id, FAILED, <<>>, "execute failed", 0)

\* self.status as process_task leaves it: the status of the outcome, and the
\* finally clause resets it only if it still reads RUNNING
StatusAfter(r) == IF r.status = RUNNING THEN IDLE ELSE r.status

-----------------------------------------------------------------------------
(* AgentOrchestrator._execute_step *)

Step(s) == workflow.steps[s]

\* task_context: the shared context, and for every dependency the payload of
\* the entry of previous_results whose task_id is that dependency
DepEntries(s) ==
    {i \in DOMAIN results : results[i][2].task_id \in Step(s).depends_on}

TaskContext(s) ==
    LET hits == DepEntries(s)
        keys == {ResultKey(results[i][1]) : i \in hits}
    IN  [k \in DOMAIN SharedContext \cup keys |->
            IF k \in keys
            THEN results[CHOOSE i \in hits : ResultKey(results[i][1]) = k][2].result
            ELSE SharedContext[k]]

\* a retry loop that does not look at the result's status
RetryCounts_AnyStatus(s, r) == Step(s).retry_on_failure

\* the retry loop after an attempt that returned r: TRUE when it goes on
RetryCounts(s, r) == r.status # SUCCESS /\ Step(s).retry_on_failure

NextRetries(s, r) == IF RetryCounts(s, r) THEN retries[s] + 1 ELSE retries[s]

\* a retry loop that allows one attempt too many
WillRetry_OneTooMany(s, r) ==
    RetryCounts(s, r) /\ NextRetries(s, r) <= Step(s).max_retries + 1

WillRetry(s, r) == RetryCounts(s, r) /\ NextRetries(s, r) <= Step(s).max_retries

\* a backoff whose attempt counter starts at 0
Backoff_FromZero(n) == 2 ^ (n - 1)

Backoff(n) == 2 ^ n

-----------------------------------------------------------------------------
(* AgentOrchestrator.execute_workflow: aggregation *)

\* a confidence list that takes every result, whatever its status
SuccessConfidences_AnyStatus(vals) == [i \in DOMAIN vals |-> vals[i].confidence]

RECURSIVE SuccessConfidences(_)
SuccessConfidences(vals) ==
    IF vals = <<>> THEN <<>>
    ELSE (IF Head(vals).status = SUCCESS THEN <<Head(vals).confidence>> ELSE <<>>)
         \o SuccessConfidences(Tail(vals))

\* sum(confidences) / len(confidences), kept as a fraction of ConfScale units
OverallConfidence(agent_results) ==
    LET confidences == SuccessConfidences(DictValues(agent_results))
    IN  IF confidences # <<>>
        THEN [num |-> SumSeq(confidences), den |-> Len(confidences)]
        ELSE [num |-> 0, den |-> 1]

RECURSIVE CollectErrors(_)
CollectErrors(vals) ==
    IF vals = <<>> THEN <<>>
    ELSE (IF Head(vals).error # None
          THEN <<<<Head(vals).agent_id, Head(vals).error>>>> ELSE <<>>)
         \o CollectErrors(Tail(vals))

WorkflowStatus(agent_results, errors) ==
    IF errors = <<>> THEN "success" ELSE "partial_success"

\* the try block ran to its end
Completed(agent_results) ==
    LET errors == CollectErrors(DictValues(agent_results))
    IN  /\ execution_history' = Append(execution_history,
            OrchestrationResult(WorkflowStatus(agent_results, errors),
                                agent_results,
                                OverallConfidence(agent_results), errors))
        /\ pc' = "done"

\* an except block that builds no OrchestrationResult
Aborted_Unrecorded(exc) ==
    /\ pc' = "done"
    /\ UNCHANGED execution_history

\* the except block: agent_results is still the empty dict of line 112
Aborted(exc) ==
    /\ execution_history' = Append(execution_history,
            OrchestrationResult("failed", <<>>, [num |-> 0, den |-> 1], <<exc>>))
    /\ pc' = "done"

-----------------------------------------------------------------------------
(* Actions *)

\* a lookup that takes any id for a registered one
WorkflowRegistered_AnyId(id) == TRUE

\* self.workflows.get(workflow_id) finds a workflow
WorkflowRegistered(id) == id \in RegisteredWorkflows

\* execute_workflow up to the call of _execute_parallel/_execute_sequential,
\* or up to the ValueError for a workflow_id that is not registered
ExecuteWorkflow(id) ==
    /\ pc = "idle"
    /\ workflow_id' = id
    /\ IF WorkflowRegistered(id)
       THEN /\ pc' = IF workflow.parallel_execution
                     THEN "parallel" ELSE "sequential"
            /\ UNCHANGED propagated
       ELSE /\ pc' = "raised"
            /\ propagated' = WorkflowNotFound(id)
    /\ UNCHANGED <<workflow, status, task_history, results, completed_steps,
                   ready_steps, idx, spc, retries, result, raised, task,
                   attempts, waits, execution_history>>
    /\ UNCHANGED sideVars

\* a readiness test that forgets completed_steps
IsReady_IgnoresCompleted(i) ==
    \A dep \in Step(i).depends_on : dep \in completed_steps

\* a readiness test that forgets depends_on
IsReady_IgnoresDependencies(i) == Step(i).step_id \notin completed_steps

IsReady(i) ==
    /\ Step(i).step_id \notin completed_steps
    /\ \A dep \in Step(i).depends_on : dep \in completed_steps

RECURSIVE ReadyFrom(_)
ReadyFrom(i) ==
    IF i > NumSteps THEN <<>>
    ELSE (IF IsReady(i) THEN <<i>> ELSE <<>>) \o ReadyFrom(i + 1)

ReadySteps == ReadyFrom(1)

\* _execute_parallel: the head of the while loop, up to asyncio.gather
BeginWave ==
    /\ pc = "parallel"
    /\ ready_steps = <<>>
    /\ Cardinality(completed_steps) < Len(workflow.steps)
    /\ ReadySteps # <<>>
    /\ ready_steps' = ReadySteps
    /\ spc' = [s \in Steps |-> IF IsReady(s) THEN "created" ELSE spc[s]]
    /\ UNCHANGED <<workflow, status, task_history, pc, results, completed_steps,
                   idx, retries, result, raised, task, attempts, waits,
                   execution_history>>
    /\ UNCHANGED <<callVars, sideVars>>

\* _execute_parallel: the loop ends (all steps completed, or no step is ready)
\* and execute_workflow aggregates the results
ParallelReturn ==
    /\ pc = "parallel"
    /\ ready_steps = <<>>
    /\ \/ Cardinality(completed_steps) >= Len(workflow.steps)
       \/ ReadySteps = <<>>
    /\ Completed(results)
    /\ UNCHANGED <<workflow, status, task_history, results, completed_steps,
                   ready_steps, idx, spc, retries, result, raised, task,
                   attempts, waits>>
    /\ UNCHANGED <<callVars, sideVars>>

\* a sequential loop that starts any step not yet started
Dispatchable_AnyPending(s) ==
    \/ pc = "parallel" /\ spc[s] = "created"
    \/ pc = "sequential" /\ spc[s] = "pending"

Dispatchable(s) ==
    \/ pc = "parallel" /\ spc[s] = "created"
    \/ pc = "sequential" /\ idx = s /\ spc[s] = "pending"

\* _execute_step up to the first await inside process_task: the agent is
\* looked up, the task is built and process_task marks the agent RUNNING
DispatchStep(s) ==
    /\ Dispatchable(s)
    /\ Step(s).agent_id \in Agents
    /\ task' = [task EXCEPT ![s] = AgentTask(Step(s).step_id,
                                         Step(s).parameters, TaskContext(s))]
    /\ retries' = [retries EXCEPT ![s] = 0]
    /\ spc' = [spc EXCEPT ![s] = "running"]
    /\ status' = [status EXCEPT ![Step(s).agent_id] = RUNNING]
    /\ attempts' = [attempts EXCEPT ![s] = @ + 1]
    /\ UNCHANGED <<workflow, task_history, pc, results, completed_steps,
                   ready_steps, idx, result, raised, waits, execution_history>>
    /\ UNCHANGED <<callVars, sideVars>>

\* _execute_step of a step whose agent is not registered: ValueError. Under
\* gather it is kept as the step's outcome; in sequential mode it propagates
\* to execute_workflow's except block
DispatchUnknownAgent(s) ==
    /\ Dispatchable(s)
    /\ Step(s).agent_id \notin Agents
    /\ spc' = [spc EXCEPT ![s] = "raised"]
    /\ raised' = [raised EXCEPT ![s] = AgentNotFound(Step(s).agent_id)]
    /\ IF pc = "sequential"
       THEN Aborted(AgentNotFound(Step(s).agent_id))
       ELSE UNCHANGED <<pc, execution_history>>
    /\ UNCHANGED <<workflow, status, task_history, results, completed_steps,
                   ready_steps, idx, retries, result, task, attempts, waits>>
    /\ UNCHANGED <<callVars, sideVars>>

\* process_task returns, and _execute_step's loop returns the result or
\* goes to sleep before the next attempt
AttemptEnd(s, outcome) ==
    /\ spc[s] = "running"
    /\ LET a == Step(s).agent_id
           r == ProcessTaskResult(a, task[s].task_id, outcome)
       IN  /\ status' = [status EXCEPT ![a] = StatusAfter(r)]
           /\ task_history' = [task_history EXCEPT ![a] = Append(@, r)]
           /\ result' = [result EXCEPT ![s] = r]
           /\ retries' = [retries EXCEPT ![s] = NextRetries(s, r)]
           /\ IF WillRetry(s, r)
              THEN /\ spc' = [spc EXCEPT ![s] = "backoff"]
                   /\ waits' = [waits EXCEPT
                                  ![s] = Append(@, Backoff(NextRetries(s, r)))]
              ELSE /\ spc' = [spc EXCEPT ![s] = "returned"]
                   /\ UNCHANGED waits
    /\ UNCHANGED <<workflow, pc, results, completed_steps, ready_steps, idx,
                   raised, task, attempts, execution_history>>
    /\ UNCHANGED <<callVars, sideVars>>

\* the sleep is over: the loop calls process_task again
AttemptRetry(s) ==
    /\ spc[s] = "backoff"
    /\ spc' = [spc EXCEPT ![s] = "running"]
    /\ status' = [status EXCEPT ![Step(s).agent_id] = RUNNING]
    /\ attempts' = [attempts EXCEPT ![s] = @ + 1]
    /\ UNCHANGED <<workflow, task_history, pc, results, completed_steps,
                   ready_steps, idx, retries, result, raised, task, waits,
                   execution_history>>
    /\ UNCHANGED <<callVars, sideVars>>

\* _execute_parallel: the for loop over zip(ready_steps, step_results)
RECURSIVE ProcessWave(_, _, _)
ProcessWave(wave, res, comp) ==
    IF wave = <<>>
    THEN [exc |-> NoException, results |-> res, completed |-> comp]
    ELSE LET s == Head(wave)
         IN  IF spc[s] = "raised"
             THEN IF ~Step(s).optional
                  THEN [exc |-> raised[s], results |-> res, completed |-> comp]
                  ELSE ProcessWave(Tail(wave), res, comp)
             ELSE ProcessWave(Tail(wave),
                              DictSet(res, Step(s).agent_id, result[s]),
                              comp \cup {Step(s).step_id})

\* gather returns: the wave's results are recorded; a required step's
\* exception is raised again and ends the run in the except block
EndWave ==
    /\ pc = "parallel"
    /\ ready_steps # <<>>
    /\ \A i \in DOMAIN ready_steps : spc[ready_steps[i]] \in {"returned", "raised"}
    /\ LET out == ProcessWave(ready_steps, results, completed_steps)
       IN  /\ results' = out.results
           /\ completed_steps' = out.completed
           /\ ready_steps' = <<>>
           /\ IF out.exc # NoException
              THEN /\ Aborted(out.exc)
                   /\ spc' = [s \in Steps |->
                                IF Step(s).step_id \in out.completed
                                THEN "completed" ELSE spc[s]]
                   /\ UNCHANGED raised
              ELSE /\ spc' = [s \in Steps |->
                                IF Step(s).step_id \in out.completed
                                THEN "completed"
                                ELSE IF spc[s] = "raised" THEN "pending"
                                ELSE spc[s]]
                   /\ raised' = [s \in Steps |-> NoException]
                   /\ UNCHANGED <<pc, execution_history>>
    /\ UNCHANGED <<workflow, status, task_history, idx, retries, result, task,
                   attempts, waits>>
    /\ UNCHANGED <<callVars, sideVars>>

\* _execute_sequential: _execute_step returned; the result is recorded and
\* the loop raises, goes to the next step, or ends
SeqCollect ==
    /\ pc = "sequential"
    /\ idx <= NumSteps
    /\ spc[idx] = "returned"
    /\ LET r == result[idx]
           res == DictSet(results, Step(idx).agent_id, r)
       IN  /\ results' = res
           /\ spc' = [spc EXCEPT ![idx] = "completed"]
           /\ IF r.status = FAILED /\ ~Step(idx).optional
              THEN /\ Aborted(RequiredStepFailed(Step(idx).step_id, r.error))
                   /\ UNCHANGED idx
              ELSE /\ idx' = idx + 1
                   /\ IF idx = Len(workflow.steps)
                      THEN Completed(res)
                      ELSE UNCHANGED <<pc, execution_history>>
    /\ UNCHANGED <<workflow, status, task_history, completed_steps, ready_steps,
                   retries, result, raised, task, attempts, waits>>
    /\ UNCHANGED <<callVars, sideVars>>

Next ==
    \/ \E id \in WorkflowIds : ExecuteWorkflow(id)
    \/ BeginWave
    \/ ParallelReturn
    \/ \E s \in Steps : DispatchStep(s)
    \/ \E s \in Steps : DispatchUnknownAgent(s)
    \/ \E s \in Steps : \E outcome \in Outcomes(task[s].parameters) :
            AttemptEnd(s, outcome)
    \/ \E s \in Steps : AttemptRetry(s)
    \/ EndWave
    \/ SeqCollect

Spec == Init /\ [][Next]_vars

\* the event loop keeps running what can run, and every call a step awaits
\* returns
FairSpec == Spec /\ WF_vars(Next)

-----------------------------------------------------------------------------
(* BaseAgent.process_task, step by step, on one agent; BaseAgent.get_status *)

\* the orchestrator's variables while no workflow runs
OrchestratorAtRest ==
    /\ workflow = CHOOSE w \in Workflows : TRUE
    /\ pc = "idle"
    /\ results = <<>>
    /\ completed_steps = {}
    /\ ready_steps = <<>>
    /\ idx = 1
    /\ spc = [s \in Steps |-> "pending"]
    /\ retries = [s \in Steps |-> 0]
    /\ result = [s \in Steps |-> NoResult]
    /\ raised = [s \in Steps |-> NoException]
    /\ task = [s \in Steps |-> NoTask]
    /\ attempts = [s \in Steps |-> 0]
    /\ waits = [s \in Steps |-> <<>>]
    /\ execution_history = <<>>
    /\ workflow_id = None
    /\ propagated = NoException
    /\ behaviour = FreeBehaviour

orchestratorVars ==
    <<workflow, pc, results, completed_steps, ready_steps, idx, spc, retries,
      result, raised, task, attempts, waits, execution_history, workflow_id,
      propagated, behaviour>>

\* the agent process_task is called on, and the calls made
TheAgent == "w1"
Calls == 1..MaxCalls
CallTaskIds == <<"t1", "t2", "t3", "t4", "t5">>

\* task.deadline: None (0), or the next instant
Deadlines == {0, now + 1}

NewCall(c) ==
    [pc |-> "new", task_id |-> CallTaskIds[c], deadline |-> 0, start_time |-> 0,
     valid |-> None, executed |-> FALSE, returned |-> NoResult]

\* what validate_input can do: return True, return False, raise
ValidateOutcomes == {"true", "false", "raise"}

\* an AgentResult with its execution_time
WithExecutionTime(r, execution_time) ==
    [agent_id |-> r.agent_id, task_id |-> r.task_id, status |-> r.status,
     result |-> r.result, error |-> r.error, confidence |-> r.confidence,
     execution_time |-> execution_time]

\* handlers that catch asyncio.TimeoutError only
Caught_TimeoutOnly(kind) == kind = "timeout"

\* the except clauses of process_task: asyncio.TimeoutError, and Exception
Caught(kind) == kind \in {"timeout", "raise", "invalid"}

\* a validation whose verdict is not looked at
PassesValidation_Unchecked(v) == v # "raise"

\* "if not await self.validate_input(task): raise ValueError"
PassesValidation(v) == v = "true"

\* a process_task without its finally block
Finally_Skipped(st) == st

\* "finally: if self.status == AgentStatus.RUNNING: self.status = IDLE"
Finally(st) == IF st = RUNNING THEN IDLE ELSE st

InFlight(c) == calls[c].pc \in {"validating", "executing"}

InitAgent ==
    /\ OrchestratorAtRest
    /\ status = [a \in Agents |-> IDLE]
    /\ task_history = [a \in Agents |-> <<>>]
    /\ now = 0
    /\ calls = [c \in Calls |-> NewCall(c)]
    /\ message_queue = [a \in Agents |-> <<>>]
    /\ broadcast = NoBroadcast

\* process_task up to "await self.validate_input(task)"
ProcessStart(c, deadline) ==
    /\ calls[c].pc = "new"
    /\ \A b \in Calls : b < c => calls[b].pc # "new"
    /\ calls' = [calls EXCEPT ![c].pc = "validating",
                              ![c].start_time = now,
                              ![c].deadline = deadline]
    /\ status' = [status EXCEPT ![TheAgent] = RUNNING]
    /\ UNCHANGED <<orchestratorVars, task_history, now, message_queue, broadcast>>

\* the end of process_task for one way the worker's code ended: the result
\* built, returned and appended to task_history, or the exception let through
\* (asyncio.CancelledError is not an Exception: only the finally block runs)
EndCall(c, valid, outcome) ==
    IF outcome.kind = "ok" \/ Caught(outcome.kind)
    THEN LET r == WithExecutionTime(
                      ProcessTaskResult(TheAgent, calls[c].task_id, outcome),
                      now - calls[c].start_time)
         IN  /\ status' = [status EXCEPT ![TheAgent] = StatusAfter(r)]
             /\ task_history' = [task_history EXCEPT ![TheAgent] = Append(@, r)]
             /\ calls' = [calls EXCEPT ![c].pc = "returned",
                                       ![c].valid = valid,
                                       ![c].returned = r]
    ELSE /\ status' = [status EXCEPT ![TheAgent] = Finally(@)]
         /\ calls' = [calls EXCEPT ![c].pc = IF outcome.kind = "cancelled"
                                             THEN "cancelled" ELSE "escaped",
                                   ![c].valid = valid]
         /\ UNCHANGED task_history

\* validate_input returns or raises
ValidateEnd(c, v) ==
    /\ calls[c].pc = "validating"
    /\ IF PassesValidation(v)
       THEN /\ calls' = [calls EXCEPT ![c].pc = "executing",
                                      ![c].valid = v,
                                      ![c].executed = TRUE]
            /\ UNCHANGED <<status, task_history>>
       ELSE EndCall(c, v, [kind |-> IF v = "raise" THEN "raise" ELSE "invalid",
                           confidence |-> 0])
    /\ UNCHANGED <<orchestratorVars, now, message_queue, broadcast>>

\* execute returns or raises
ExecuteEnd(c, outcome) ==
    /\ calls[c].pc = "executing"
    /\ EndCall(c, calls[c].valid, outcome)
    /\ UNCHANGED <<orchestratorVars, now, message_queue, broadcast>>

\* the caller cancels the call while it awaits validate_input or execute
Cancel(c) ==
    /\ InFlight(c)
    /\ EndCall(c, calls[c].valid, [kind |-> "cancelled", confidence |-> 0])
    /\ UNCHANGED <<orchestratorVars, now, message_queue, broadcast>>

\* time passes while a call is in flight (only the calls read the clock)
Tick ==
    /\ now < MaxTime
    /\ \E c \in Calls : InFlight(c)
    /\ now' = now + 1
    /\ UNCHANGED <<orchestratorVars, status, task_history, calls,
                   message_queue, broadcast>>

NextAgent ==
    \/ \E c \in Calls : \E deadline \in Deadlines : ProcessStart(c, deadline)
    \/ \E c \in Calls, v \in ValidateOutcomes : ValidateEnd(c, v)
    \/ \E c \in Calls : \E outcome \in Outcomes("valid") : ExecuteEnd(c, outcome)
    \/ \E c \in Calls : Cancel(c)
    \/ Tick

SpecAgent == InitAgent /\ [][NextAgent]_vars

\* a success rate that counts every recorded result
CalculateSuccessRate_CountsAll(h) ==
    IF h = <<>> THEN [num |-> 0, den |-> 1]
    ELSE [num |-> Len(h), den |-> Len(h)]

\* BaseAgent._calculate_success_rate, as a fraction
CalculateSuccessRate(h) ==
    IF h = <<>> THEN [num |-> 0, den |-> 1]
    ELSE [num |-> Len(SelectSeq(h, LAMBDA r : r.status = SUCCESS)),
          den |-> Len(h)]

\* BaseAgent._calculate_avg_execution_time, as a fraction
CalculateAvgExecutionTime(h) ==
    IF h = <<>> THEN [num |-> 0, den |-> 1]
    ELSE [num |-> SumSeq([i \in DOMAIN h |-> h[i].execution_time]),
          den |-> Len(h)]

\* BaseAgent.get_status
GetStatus(a) ==
    [agent_id |-> a,
     status |-> status[a],
     tasks_completed |-> Len(task_history[a]),
     success_rate |-> CalculateSuccessRate(task_history[a]),
     average_execution_time |-> CalculateAvgExecutionTime(task_history[a])]

\* AgentOrchestrator.get_all_agent_status
GetAllAgentStatus == [a \in Agents |-> GetStatus(a)]

-----------------------------------------------------------------------------
(* BaseAgent.reset between and during the process_task calls on one agent  *)
(* (the clock stands still: reset and the history do not read it)          *)

\* the call records whose return an erased history no longer shows
Erased(cs) ==
    [c \in Calls |-> IF cs[c].pc = "returned"
                     THEN [cs[c] EXCEPT !.pc = "erased"] ELSE cs[c]]

\* a reset that leaves the history as it is
Reset_KeepsHistory ==
    /\ \E c \in Calls : calls[c].pc # "new"
    /\ status' = [status EXCEPT ![TheAgent] = IDLE]
    /\ calls' = Erased(calls)
    /\ UNCHANGED <<orchestratorVars, task_history, now, message_queue, broadcast>>

\* reset: "self.status = AgentStatus.IDLE; self.task_history.clear()".
\* reset does not await, so it runs between the steps of the calls in
\* flight; it is taken once a call has been made
Reset ==
    /\ \E c \in Calls : calls[c].pc # "new"
    /\ status' = [status EXCEPT ![TheAgent] = IDLE]
    /\ task_history' = [task_history EXCEPT ![TheAgent] = <<>>]
    /\ calls' = Erased(calls)
    /\ UNCHANGED <<orchestratorVars, now, message_queue, broadcast>>

NextReset ==
    \/ \E c \in Calls : \E deadline \in Deadlines : ProcessStart(c, deadline)
    \/ \E c \in Calls, v \in ValidateOutcomes : ValidateEnd(c, v)
    \/ \E c \in Calls : \E outcome \in Outcomes("valid") : ExecuteEnd(c, outcome)
    \/ \E c \in Calls : Cancel(c)
    \/ Reset

SpecReset == InitAgent /\ [][NextReset]_vars

-----------------------------------------------------------------------------
(* One workflow run in both modes: execute_workflow on two registrations  *)
(* of the same steps that differ in parallel_execution only               *)

\* depends_on that the list order respects: a step depends on earlier steps
OrderedDepShapes ==
    {<<{}, d2, d3>> : d2 \in SUBSET {"s1"}, d3 \in SUBSET {"s1", "s2"}}

\* every assignment of registered agents to the steps
RegisteredAgentMaps == {<<a1, a2, a3>> : a1 \in Agents, a2 \in Agents, a3 \in Agents}

OrderedWorkflows ==
    {[steps |-> [i \in Steps |->
                    WorkflowStep(i, deps, ag, [s \in Steps |-> FALSE],
                                 [s \in Steps |-> NoRetry])],
      parallel_execution |-> par] :
        deps \in OrderedDepShapes, ag \in RegisteredAgentMaps, par \in BOOLEAN}

\* workers that succeed at the first attempt, each step with its confidence
SucceedingBehaviours ==
    {[free |-> FALSE, confidence |-> conf] : conf \in [Steps -> Confidences]}

\* what the worker of a step does under the run's behaviour
OutcomeOf(s) == [kind |-> "ok", confidence |-> behaviour.confidence[s]]

InitEquiv ==
    /\ workflow \in OrderedWorkflows
    /\ behaviour \in SucceedingBehaviours
    /\ status = [a \in Agents |-> IDLE]
    /\ task_history = [a \in Agents |-> <<>>]
    /\ pc = "idle"
    /\ results = <<>>
    /\ completed_steps = {}
    /\ ready_steps = <<>>
    /\ idx = 1
    /\ spc = [s \in Steps |-> "pending"]
    /\ retries = [s \in Steps |-> 0]
    /\ result = [s \in Steps |-> NoResult]
    /\ raised = [s \in Steps |-> NoException]
    /\ task = [s \in Steps |-> NoTask]
    /\ attempts = [s \in Steps |-> 0]
    /\ waits = [s \in Steps |-> <<>>]
    /\ execution_history = <<>>
    /\ workflow_id = None
    /\ propagated = NoException
    /\ SideInit

\* the first run has returned; the next execute_workflow call names the
\* registration with the other mode and starts from fresh locals
RunOtherMode ==
    /\ pc = "done"
    /\ Len(execution_history) = 1
    /\ workflow' = [workflow EXCEPT !.parallel_execution = ~@]
    /\ pc' = "idle"
    /\ results' = <<>>
    /\ completed_steps' = {}
    /\ ready_steps' = <<>>
    /\ idx' = 1
    /\ spc' = [s \in Steps |-> "pending"]
    /\ retries' = [s \in Steps |-> 0]
    /\ result' = [s \in Steps |-> NoResult]
    /\ raised' = [s \in Steps |-> NoException]
    /\ task' = [s \in Steps |-> NoTask]
    /\ attempts' = [s \in Steps |-> 0]
    /\ waits' = [s \in Steps |-> <<>>]
    /\ UNCHANGED <<status, task_history, execution_history>>
    /\ UNCHANGED <<callVars, sideVars>>

NextEquiv ==
    \/ \E id \in RegisteredWorkflows : ExecuteWorkflow(id)
    \/ BeginWave
    \/ ParallelReturn
    \/ \E s \in Steps : DispatchStep(s)
    \/ \E s \in Steps : AttemptEnd(s, OutcomeOf(s))
    \/ EndWave
    \/ SeqCollect
    \/ RunOtherMode

SpecEquiv == InitEquiv /\ [][NextEquiv]_vars

-----------------------------------------------------------------------------
(* AgentOrchestrator.broadcast_message and BaseAgent.send_message *)

\* list(self.agents.keys()): the agents in the order they were registered
RegistrationOrder == <<"w1", "w2", "w3">>

Payloads == {"p1", "p2"}

\* target_agents: None (given = FALSE) or a list
TargetLists ==
    {<<>>, <<"w2">>, <<"w3", UnknownAgent, "w1">>, <<"w2", "w2">>}
TargetAgents ==
    {[given |-> FALSE, list |-> <<>>]} \cup [given : {TRUE}, list : TargetLists]

\* "target_agents or list(self.agents.keys())"
Targets(target_agents) ==
    IF target_agents.given /\ target_agents.list # <<>>
    THEN target_agents.list ELSE RegistrationOrder

\* the AgentMessage built for one target
AgentMessage(no, sender_id, receiver_id, payload) ==
    [message_id |-> <<sender_id, receiver_id, no>>, sender_id |-> sender_id,
     receiver_id |-> receiver_id, payload |-> payload]

\* what agent.send_message can do: return, or raise
SendOutcomes == {"ok", "raise"}

InitMsg ==
    /\ OrchestratorAtRest
    /\ status = [a \in Agents |-> IDLE]
    /\ task_history = [a \in Agents |-> <<>>]
    /\ SideInit

\* broadcast_message is called: targets is computed
BroadcastStart(sender_id, payload, target_agents) ==
    /\ broadcast.pc \in {"idle", "returned", "raised"}
    /\ broadcast.no < MaxBroadcasts
    /\ broadcast' = [pc |-> "sending", no |-> broadcast.no + 1,
                     sender_id |-> sender_id, payload |-> payload,
                     given |-> target_agents.given,
                     targets |-> Targets(target_agents), failed |-> {}]
    /\ UNCHANGED <<orchestratorVars, status, task_history, now, calls,
                   message_queue>>

\* the loop takes its next target_id
Sendable(target_id) ==
    target_id # broadcast.sender_id /\ target_id \in Agents

\* the rest of the loop, or its end
AfterTarget ==
    [broadcast EXCEPT !.targets = Tail(@),
                      !.pc = IF Tail(broadcast.targets) = <<>>
                             THEN "returned" ELSE "sending"]

\* an iteration that ends in "continue": the sender itself, or an id that
\* is not registered
BroadcastSkip ==
    /\ broadcast.pc = "sending"
    /\ ~Sendable(Head(broadcast.targets))
    /\ broadcast' = AfterTarget
    /\ UNCHANGED <<orchestratorVars, status, task_history, now, calls,
                   message_queue>>

\* an iteration that awaits agent.send_message(message): the message is put
\* into that agent's message_queue, or the exception leaves broadcast_message
BroadcastSend(outcome) ==
    /\ broadcast.pc = "sending"
    /\ Sendable(Head(broadcast.targets))
    /\ LET target_id == Head(broadcast.targets)
           message == AgentMessage(broadcast.no, broadcast.sender_id, target_id,
                                   broadcast.payload)
       IN  IF outcome = "ok"
           THEN /\ message_queue' = [message_queue EXCEPT
                                        ![target_id] = Append(@, message)]
                /\ broadcast' = AfterTarget
           ELSE /\ broadcast' = [broadcast EXCEPT !.pc = "raised",
                                                  !.failed = @ \cup {target_id}]
                /\ UNCHANGED message_queue
    /\ UNCHANGED <<orchestratorVars, status, task_history, now, calls>>

NextMsg ==
    \/ \E sender_id \in Agents \cup {UnknownAgent}, payload \in Payloads,
          target_agents \in TargetAgents :
            BroadcastStart(sender_id, payload, target_agents)
    \/ BroadcastSkip
    \/ \E outcome \in SendOutcomes : BroadcastSend(outcome)

SpecMsg == InitMsg /\ [][NextMsg]_vars

-----------------------------------------------------------------------------
(* BaseAgent.send_message and BaseAgent.receive_message *)

\* the timeout argument of receive_message: None (given = FALSE) or seconds
Timeouts ==
    {[given |-> FALSE, value |-> 0]} \cup [given : {TRUE}, value : 0..1]

\* "if timeout:" is false for None and for 0
Armed(timeout) == timeout.given /\ timeout.value # 0

\* no receive_message call is in progress
NoReceive ==
    [pc |-> "idle", agent_id |-> None, timeout |-> [given |-> FALSE, value |-> 0],
     start_time |-> 0, returned |-> <<>>]

\* the number of messages in all mailboxes
Queued ==
    SumSeq([i \in DOMAIN RegistrationOrder |->
               Len(message_queue[RegistrationOrder[i]])])

InitMailbox ==
    /\ OrchestratorAtRest
    /\ status = [a \in Agents |-> IDLE]
    /\ task_history = [a \in Agents |-> <<>>]
    /\ now = 0
    /\ calls = NoReceive
    /\ message_queue = [a \in Agents |-> <<>>]
    /\ broadcast = NoBroadcast

\* agent.send_message(message): the message is put into the message_queue of
\* the agent the method is called on
SendMessage(agent_id, receiver_id) ==
    /\ Queued < MaxMessages
    /\ message_queue' = [message_queue EXCEPT ![agent_id] =
                            Append(@, AgentMessage(0, agent_id, receiver_id,
                                                   "p1"))]
    /\ UNCHANGED <<orchestratorVars, status, task_history, now, calls, broadcast>>

\* message_queue.get() hands over the oldest message of the mailbox
Get(agent_id, timeout, start_time) ==
    /\ calls' = [pc |-> "returned", agent_id |-> agent_id, timeout |-> timeout,
                 start_time |-> start_time,
                 returned |-> <<Head(message_queue[agent_id])>>]
    /\ message_queue' = [message_queue EXCEPT ![agent_id] = Tail(@)]

\* agent.receive_message(timeout) is called: it returns a queued message, or
\* waits on the empty queue, under asyncio.wait_for when "if timeout:" holds
ReceiveStart(agent_id, timeout) ==
    /\ calls.pc \in {"idle", "returned"}
    /\ IF message_queue[agent_id] # <<>>
       THEN Get(agent_id, timeout, now)
       ELSE /\ calls' = [pc |-> "waiting", agent_id |-> agent_id,
                         timeout |-> timeout, start_time |-> now,
                         returned |-> <<>>]
            /\ UNCHANGED message_queue
    /\ UNCHANGED <<orchestratorVars, status, task_history, now, broadcast>>

\* a message arrived for the waiting call
ReceiveGet ==
    /\ calls.pc = "waiting"
    /\ message_queue[calls.agent_id] # <<>>
    /\ Get(calls.agent_id, calls.timeout, calls.start_time)
    /\ UNCHANGED <<orchestratorVars, status, task_history, now, broadcast>>

\* the timer of asyncio.wait_for has run out
Expired ==
    /\ calls.pc = "waiting"
    /\ Armed(calls.timeout)
    /\ now >= calls.start_time + calls.timeout.value

\* asyncio.TimeoutError is caught: receive_message returns None
ReceiveTimeout ==
    /\ Expired
    /\ calls' = [calls EXCEPT !.pc = "returned", !.returned = <<>>]
    /\ UNCHANGED <<orchestratorVars, status, task_history, now, message_queue,
                   broadcast>>

\* time passes, unless the event loop has a timer or a wake-up to serve
MailboxTick ==
    /\ now < MaxTime
    /\ ~Expired
    /\ ~(calls.pc = "waiting" /\ message_queue[calls.agent_id] # <<>>)
    /\ now' = now + 1
    /\ UNCHANGED <<orchestratorVars, status, task_history, calls,
                   message_queue, broadcast>>

NextMailbox ==
    \/ \E agent_id \in Agents, receiver_id \in Agents :
            SendMessage(agent_id, receiver_id)
    \/ \E agent_id \in Agents, timeout \in Timeouts :
            ReceiveStart(agent_id, timeout)
    \/ ReceiveGet
    \/ ReceiveTimeout
    \/ MailboxTick

SpecMailbox == InitMailbox /\ [][NextMailbox]_vars

-----------------------------------------------------------------------------
(* AgentOrchestrator.coordinate_agents *)

\* the agent_ids argument
AgentIdLists == {
    <<"w1", "w2">>,
    <<"w2", "w1", "w3">>,
    <<"w1", "w1">>,                 \* an agent listed twice
    <<UnknownAgent, "w1", "w2">>,   \* an unregistered id before registered ones
    <<"w1", UnknownAgent>>
}

\* no coordinate_agents call has been made
NoCoordination ==
    [pc |-> "idle", agent_ids |-> <<>>, tasks |-> <<>>, results |-> <<>>,
     agent_results |-> <<>>]

\* the loop of lines 334-347: one process_task coroutine for every id of
\* agent_ids that is registered, in the order of agent_ids
RECURSIVE CoordinationTasks(_)
CoordinationTasks(agent_ids) ==
    IF agent_ids = <<>> THEN <<>>
    ELSE (IF Head(agent_ids) \in Agents THEN <<Head(agent_ids)>> ELSE <<>>)
             \o CoordinationTasks(Tail(agent_ids))

\* the task_id of the task built for an agent: "{agent_id}_{timestamp}"
CoordinationTaskId(agent_id) == <<agent_id, now>>

\* the loop of lines 354-358 over zip(agent_ids, results)
RECURSIVE ZipResults(_, _, _)
ZipResults(agent_ids, rs, agent_results) ==
    IF agent_ids = <<>> \/ rs = <<>> THEN agent_results
    ELSE ZipResults(Tail(agent_ids), Tail(rs),
                    DictSet(agent_results, Head(agent_ids), Head(rs)))

InitCoord ==
    /\ OrchestratorAtRest
    /\ status = [a \in Agents |-> IDLE]
    /\ task_history = [a \in Agents |-> <<>>]
    /\ now = 0
    /\ calls = NoCoordination
    /\ message_queue = [a \in Agents |-> <<>>]
    /\ broadcast = NoBroadcast

\* coordinate_agents up to asyncio.gather: the coroutines are created and,
\* once gathered, each runs to its first await, which marks its agent RUNNING
CoordinateStart(agent_ids) ==
    /\ calls.pc = "idle"
    /\ LET tasks == CoordinationTasks(agent_ids)
       IN  /\ calls' = [pc |-> "gathering", agent_ids |-> agent_ids,
                        tasks |-> tasks,
                        results |-> [i \in DOMAIN tasks |-> NoResult],
                        agent_results |-> <<>>]
           /\ status' = [a \in Agents |->
                            IF \E i \in DOMAIN tasks : tasks[i] = a
                            THEN RUNNING ELSE status[a]]
    /\ UNCHANGED <<orchestratorVars, task_history, now, message_queue, broadcast>>

\* one gathered process_task call returns its AgentResult
CoordinateTaskEnd(i, outcome) ==
    /\ calls.pc = "gathering"
    /\ i \in DOMAIN calls.tasks
    /\ calls.results[i] = NoResult
    /\ LET a == calls.tasks[i]
           r == ProcessTaskResult(a, CoordinationTaskId(a), outcome)
       IN  /\ status' = [status EXCEPT ![a] = StatusAfter(r)]
           /\ task_history' = [task_history EXCEPT ![a] = Append(@, r)]
           /\ calls' = [calls EXCEPT !.results[i] = r]
    /\ UNCHANGED <<orchestratorVars, now, message_queue, broadcast>>

\* gather returns: agent_results is built and returned
CoordinateReturn ==
    /\ calls.pc = "gathering"
    /\ \A i \in DOMAIN calls.results : calls.results[i] # NoResult
    /\ calls' = [calls EXCEPT
                    !.pc = "returned",
                    !.agent_results = ZipResults(calls.agent_ids,
                                                 calls.results, <<>>)]
    /\ UNCHANGED <<orchestratorVars, status, task_history, now, message_queue,
                   broadcast>>

NextCoord ==
    \/ \E agent_ids \in AgentIdLists : CoordinateStart(agent_ids)
    \/ \E i \in DOMAIN calls.tasks : \E outcome \in Outcomes("valid") :
            CoordinateTaskEnd(i, outcome)
    \/ CoordinateReturn

SpecCoord == InitCoord /\ [][NextCoord]_vars

-----------------------------------------------------------------------------
(* Vocabulary of the properties *)

Last(seq) == seq[Len(seq)]

\* the step's attempt loop has returned its final Result
Finished(s) == spc[s] \in {"returned", "completed"}

\* the step has been handed to _execute_step in this run
Dispatched(s) == spc[s] \in {"created", "running", "backoff", "returned",
                             "raised", "completed"}

\* the entries of the agent's task_history made for the step
HistoryOf(s) ==
    IF Step(s).agent_id \in Agents
    THEN SelectSeq(task_history[Step(s).agent_id],
                   LAMBDA r : r.task_id = Step(s).step_id)
    ELSE <<>>

Dependents(s) == {t \in Steps : Step(s).step_id \in Step(t).depends_on}

RECURSIVE SumOver(_, _)
SumOver(S, f) ==
    IF S = {} THEN 0
    ELSE LET x == CHOOSE y \in S : TRUE IN f[x] + SumOver(S \ {x}, f)

\* the OrchestrationResult the run returned
Returned == Last(execution_history)

-----------------------------------------------------------------------------
(* C1: in parallel mode a step is handed to its worker only after every    *)
(* step of its depends_on has returned its final Result and has been put   *)
(* into the completed set; no step starts while a dependency is pending    *)
(* or running.                                                             *)
C1_DispatchAfterDependencies ==
    workflow.parallel_execution =>
        \A s \in Steps : Dispatched(s) =>
            \A dep \in Step(s).depends_on :
                /\ StepOf(dep) # 0
                /\ spc[StepOf(dep)] = "completed"
                /\ result[StepOf(dep)].task_id = dep
                /\ dep \in completed_steps

C1_Witness ==
    /\ workflow.parallel_execution
    /\ \E s \in Steps :
        /\ spc[s] = "running"
        /\ Cardinality(Step(s).depends_on) = 2

(* C2: in parallel mode a required step whose final attempt is not a       *)
(* Success aborts the run: the returned status is "failed" and no step     *)
(* depending on it is ever dispatched.                                     *)
C2_RequiredFailureAbortsParallel ==
    workflow.parallel_execution =>
        \A s \in Steps :
            (Finished(s) /\ ~Step(s).optional /\ result[s].status # SUCCESS) =>
                /\ \A t \in Dependents(s) : ~Dispatched(t)
                /\ pc = "done" => Returned.status = "failed"

(* C3: in sequential mode a required step whose final attempt is Failed or *)
(* TimedOut stops the run: no later step of the list is dispatched and the *)
(* returned status is "failed".                                            *)
C3_RequiredFailureStopsSequential ==
    ~workflow.parallel_execution =>
        \A s \in Steps :
            (spc[s] = "completed" /\ ~Step(s).optional
                /\ result[s].status \in {FAILED, TIMEOUT}) =>
                /\ \A t \in Steps : t > s => ~Dispatched(t)
                /\ pc = "done" => Returned.status = "failed"

(* C4: when an optional step's final attempt fails and every other step    *)
(* succeeds, the run returns with the failed step's Result (and its error) *)
(* in the results map, every step has been dispatched, and the status is   *)
(* "partial_success".                                                      *)
C4_OptionalFailureIsPartialSuccess ==
    \A s \in Steps :
        (/\ pc = "done"
         /\ Step(s).optional /\ Finished(s) /\ result[s].status # SUCCESS
         /\ \A t \in Steps \ {s} : Finished(t) /\ result[t].status = SUCCESS) =>
            /\ Returned.status = "partial_success"
            /\ \E i \in DOMAIN Returned.agent_results :
                   Returned.agent_results[i][2] = result[s]
            /\ <<Step(s).agent_id, result[s].error>> \in
                   {Returned.errors[i] : i \in DOMAIN Returned.errors}

(* C5: the number of process_task calls made for a step lies between 1 and *)
(* max_retries + 1 once the step has returned, it is exactly 1 when        *)
(* retry_on_failure is false, and no call follows one that returned        *)
(* Success.                                                                *)
C5_AttemptBounds ==
    \A s \in Steps :
        LET h == HistoryOf(s)
        IN  /\ attempts[s] <= Step(s).max_retries + 1
            /\ Finished(s) => attempts[s] >= 1 /\ Len(h) = attempts[s]
            /\ ~Step(s).retry_on_failure => attempts[s] <= 1
            /\ \A i \in DOMAIN h : h[i].status = SUCCESS =>
                   i = Len(h) /\ i = attempts[s] /\ Finished(s)

C5_Witness ==
    \E s \in Steps :
        /\ Finished(s)
        /\ Step(s).max_retries = MaxRetries
        /\ attempts[s] = MaxRetries + 1
        /\ result[s].status # SUCCESS

(* C6: a step with retry_on_failure whose worker fails f <= max_retries    *)
(* times and then succeeds ends with a Success after exactly f + 1         *)
(* recorded attempts, having slept 2^1, ..., 2^f between them (2^(f+1) - 2 *)
(* in all) and never after the last attempt; it gives up only after        *)
(* max_retries + 1 attempts.                                               *)
C6_RetryWithBackoff ==
    \A s \in Steps :
        (Finished(s) /\ Step(s).retry_on_failure) =>
            LET h == HistoryOf(s)
                f == Cardinality({i \in DOMAIN h : h[i].status # SUCCESS})
            IN  /\ waits[s] = [i \in 1..(attempts[s] - 1) |-> 2 ^ i]
                /\ result[s].status = SUCCESS =>
                       /\ f <= Step(s).max_retries
                       /\ Len(h) = f + 1
                       /\ attempts[s] = f + 1
                       /\ Last(h) = result[s]
                       /\ SumSeq(waits[s]) = 2 ^ (f + 1) - 2
                /\ result[s].status # SUCCESS =>
                       f = Step(s).max_retries + 1

C6_Witness ==
    \E s \in Steps :
        /\ Finished(s)
        /\ Step(s).retry_on_failure
        /\ result[s].status = SUCCESS
        /\ attempts[s] = 3
        /\ waits[s] = <<2, 4>>

(* C7: the Task built for a step B holds the shared context and, for every *)
(* step A of B.depends_on that has completed, an entry keyed by A's agent  *)
(* id whose value is the payload of A's Result.                            *)
C7_ContextCarriesDependencyPayloads ==
    [][\A b \in Steps :
          (task[b] = NoTask /\ task'[b] # NoTask) =>
              /\ \A k \in DOMAIN SharedContext :
                    /\ k \in DOMAIN task'[b].context
                    /\ task'[b].context[k] = SharedContext[k]
              /\ \A a \in Steps :
                    (Step(a).step_id \in Step(b).depends_on
                        /\ spc[a] = "completed") =>
                        /\ ResultKey(Step(a).agent_id) \in DOMAIN task'[b].context
                        /\ task'[b].context[ResultKey(Step(a).agent_id)]
                               = result[a].result]_vars

(* C8: the returned status is "success" when errors is empty,              *)
(* "partial_success" when errors is not empty and some Result is a         *)
(* Success, and "failed" when errors is not empty and no Result is a       *)
(* Success.                                                                *)
C8_StatusClassification ==
    pc = "done" =>
        LET o == Returned
            someSuccess == \E i \in DOMAIN o.agent_results :
                               o.agent_results[i][2].status = SUCCESS
        IN  o.status = (IF o.errors = <<>> THEN "success"
                        ELSE IF someSuccess THEN "partial_success"
                        ELSE "failed")

(* C9: overall_confidence is the arithmetic mean of the confidence of      *)
(* exactly the Results of status Success in the returned results map, 0    *)
(* when there is none, and lies in [0,1].                                  *)
C9_OverallConfidenceIsMeanOfSuccesses ==
    pc = "done" =>
        LET o == Returned
            succ == {i \in DOMAIN o.agent_results :
                        o.agent_results[i][2].status = SUCCESS}
            conf == [i \in DOMAIN o.agent_results |->
                        o.agent_results[i][2].confidence]
            c == o.overall_confidence
        IN  /\ c.den > 0
            /\ succ = {} => c.num = 0
            /\ c.num * Cardinality(succ) = SumOver(succ, conf) * c.den
            /\ 0 <= c.num /\ c.num <= ConfScale * c.den

C9_Witness ==
    /\ pc = "done"
    /\ \E i, j, k \in DOMAIN Returned.agent_results :
        /\ Returned.agent_results[i][2].status = SUCCESS
        /\ Returned.agent_results[j][2].status = SUCCESS
        /\ Returned.agent_results[i][2].confidence
               # Returned.agent_results[j][2].confidence
        /\ Returned.agent_results[k][2].status = FAILED

(* C10: when some step's final Result is not a Success the returned errors *)
(* list is not empty and the status is not "success"; every Result of the  *)
(* results map with an error gives one entry "{agent_id}: {error}".        *)
C10_FailuresAreReported ==
    pc = "done" =>
        /\ (\E s \in Steps : Finished(s) /\ result[s].status # SUCCESS) =>
               Returned.errors # <<>> /\ Returned.status # "success"
        /\ \A i \in DOMAIN Returned.agent_results :
               LET r == Returned.agent_results[i][2]
               IN  r.error # None =>
                       Cardinality({j \in DOMAIN Returned.errors :
                           Returned.errors[j] = <<r.agent_id, r.error>>}) = 1

(* C11: execute_workflow with an unregistered workflow id raises the       *)
(* workflow-not-found error to its caller before anything is dispatched:   *)
(* no process_task call is made, no OrchestrationResult is built, and the  *)
(* execution history and every agent's status and history stay as they     *)
(* were.                                                                   *)
C11_UnknownWorkflowRaisesBeforeDispatch ==
    (workflow_id # None /\ workflow_id \notin RegisteredWorkflows) =>
        /\ pc = "raised"
        /\ propagated = WorkflowNotFound(workflow_id)
        /\ execution_history = <<>>
        /\ \A s \in Steps : attempts[s] = 0 /\ ~Dispatched(s) /\ task[s] = NoTask
        /\ \A a \in Agents : status[a] = IDLE /\ task_history[a] = <<>>

C11_Witness ==
    /\ workflow_id = UnknownWorkflow
    /\ propagated # NoException

(* C12: in parallel mode a run whose ready wave is empty while some step   *)
(* is not completed (a cycle, or a dependency on a step that does not      *)
(* exist) ends as a workflow failure: status "failed" and a non-empty      *)
(* errors list.                                                            *)
C12_StalledRunIsAFailure ==
    (/\ workflow.parallel_execution
     /\ pc = "done"
     /\ \E s \in Steps : Step(s).step_id \notin completed_steps
     /\ \A s \in Steps : ~IsReady(s)) =>
        /\ Returned.status = "failed"
        /\ Returned.errors # <<>>

(* C13: whatever the worker does (validate_input returns False or raises, *)
(* execute returns, raises an error or raises a timeout), process_task     *)
(* returns exactly one AgentResult for the task and lets no exception      *)
(* through to its caller.                                                  *)
C13_ProcessReturnsOneResult ==
    \A c \in Calls :
        LET recorded == SelectSeq(task_history[TheAgent],
                                  LAMBDA r : r.task_id = calls[c].task_id)
        IN  /\ calls[c].pc # "escaped"
            /\ calls[c].pc = "returned" =>
                   /\ calls[c].returned.agent_id = TheAgent
                   /\ calls[c].returned.task_id = calls[c].task_id
                   /\ calls[c].returned.status \in {SUCCESS, FAILED, TIMEOUT}
                   /\ recorded = <<calls[c].returned>>
            /\ calls[c].pc # "returned" =>
                   /\ calls[c].returned = NoResult
                   /\ recorded = <<>>

C13_Witness ==
    \E c, d \in Calls :
        /\ calls[c].pc = "returned" /\ calls[c].valid = "raise"
        /\ calls[d].pc = "returned" /\ calls[d].returned.status = TIMEOUT

(* C14: a call whose task carries a deadline is not still inside execute   *)
(* after that deadline: process_task abandons the worker and returns.      *)
C14_DeadlineEndsTheCall ==
    \A c \in Calls :
        (calls[c].pc = "executing" /\ calls[c].deadline # 0) =>
            now <= calls[c].deadline

(* C15: when validate_input returns False, process_task returns an         *)
(* AgentResult with status FAILED, confidence 0 and a non-empty error, and *)
(* execute is not called for that call.                                    *)
C15_InvalidInputFailsWithoutExecute ==
    \A c \in Calls :
        calls[c].valid = "false" =>
            /\ calls[c].pc = "returned"
            /\ ~calls[c].executed
            /\ calls[c].returned.status = FAILED
            /\ calls[c].returned.confidence = 0
            /\ calls[c].returned.error \notin {None, ""}

C15_Witness ==
    \E c \in Calls : calls[c].valid = "false" /\ calls[c].pc = "returned"

(* C16: once every process_task call made on an agent has returned, on     *)
(* success, execution failure, validation failure or timeout alike, the    *)
(* agent's status is IDLE.                                                 *)
C16_IdleAfterReturn ==
    (/\ \E c \in Calls : calls[c].pc = "returned"
     /\ \A c \in Calls : ~InFlight(c)) =>
        status[TheAgent] = IDLE

(* C17: get_status reports success_rate = recorded results with status     *)
(* SUCCESS / recorded results, and average_execution_time = the mean of    *)
(* execution_time over all recorded results, failed ones included; both    *)
(* are 0 when the history is empty.                                        *)
C17_StatusReportsRates ==
    \A a \in Agents :
        LET h == task_history[a]
            st == GetAllAgentStatus[a]
            successes == Cardinality({i \in DOMAIN h : h[i].status = SUCCESS})
            total == SumOver(DOMAIN h, [i \in DOMAIN h |-> h[i].execution_time])
        IN  /\ st.tasks_completed = Len(h)
            /\ st.success_rate.den > 0 /\ st.average_execution_time.den > 0
            /\ IF h = <<>>
               THEN /\ st.success_rate.num = 0
                    /\ st.average_execution_time.num = 0
               ELSE /\ st.success_rate.num * Len(h)
                           = successes * st.success_rate.den
                    /\ st.average_execution_time.num * Len(h)
                           = total * st.average_execution_time.den

C17_Witness ==
    \E i, j \in DOMAIN task_history[TheAgent] :
        /\ task_history[TheAgent][i].status = SUCCESS
        /\ task_history[TheAgent][j].status # SUCCESS
        /\ task_history[TheAgent][j].execution_time > 0
        /\ task_history[TheAgent][i].execution_time
               # task_history[TheAgent][j].execution_time

(* C18: for an acyclic workflow whose list order respects depends_on and   *)
(* whose steps all succeed at the first attempt, the run in parallel mode  *)
(* and the run in sequential mode return the same overall_confidence,      *)
(* whatever agents the steps are bound to.                                 *)
C18_ModesAgreeOnConfidence ==
    Len(execution_history) = 2 =>
        execution_history[1].overall_confidence.num
                * execution_history[2].overall_confidence.den
            = execution_history[2].overall_confidence.num
                * execution_history[1].overall_confidence.den

(* C19: a step reached by the schedule whose agent id is not registered    *)
(* fails the whole workflow at once, required or optional: the run ends    *)
(* with status "failed" and the agent-not-found error, and the step is     *)
(* not dispatched again.                                                   *)
C19_UnknownAgentFailsTheWorkflow ==
    [][\A s \in Steps :
          LET failedRun ==
                  /\ pc' = "done"
                  /\ Last(execution_history').status = "failed"
                  /\ \E i \in DOMAIN Last(execution_history').errors :
                         Last(execution_history').errors[i]
                             = AgentNotFound(Step(s).agent_id)
          IN  /\ (spc[s] = "raised" /\ spc'[s] # "raised") => failedRun
              /\ (spc'[s] = "raised" /\ ~workflow.parallel_execution) => failedRun
      ]_vars

(* C20: a broadcast with no target list puts exactly one message with    *)
(* the payload into the message_queue of every registered agent other     *)
(* than the sender and none into the sender's; an unknown or failing       *)
(* recipient does not stop delivery to the others.                         *)
C20_BroadcastReachesEveryOtherAgent ==
    (broadcast.pc \in {"returned", "raised"} /\ ~broadcast.given) =>
        \A a \in Agents :
            LET delivered ==
                    SelectSeq(message_queue[a],
                              LAMBDA m : /\ m.message_id[3] = broadcast.no
                                         /\ m.payload = broadcast.payload)
            IN  /\ a = broadcast.sender_id => delivered = <<>>
                /\ (a # broadcast.sender_id /\ a \notin broadcast.failed) =>
                       Len(delivered) = 1

(* C21: after send_message(message) every message lies in the            *)
(* message_queue of the agent named by its receiver_id and in no other     *)
(* agent's, whichever agent send_message was called on.                    *)
C21_MessageLiesWithItsReceiver ==
    \A a \in Agents :
        \A i \in DOMAIN message_queue[a] : message_queue[a][i].receiver_id = a

(* C22: a receive_message call with a timeout, zero included, does not     *)
(* keep waiting on an empty mailbox after the timeout has elapsed: it has  *)
(* returned None by then.                                                  *)
C22_ReceiveEndsAtTimeout ==
    (calls.pc = "waiting" /\ calls.timeout.given) =>
        now <= calls.start_time + calls.timeout.value

(* C23: an execute_workflow call on a registered workflow id returns one   *)
(* OrchestrationResult and appends exactly that one to execution_history,  *)
(* whether the run succeeds, partially succeeds or aborts: the history     *)
(* holds one entry per finished run.                                       *)
C23_EveryRunIsRecordedOnce ==
    /\ Len(execution_history) = (IF pc = "done" THEN 1 ELSE 0)
    /\ pc = "done" =>
           /\ workflow_id \in RegisteredWorkflows
           /\ Returned.workflow_id = workflow_id
           /\ Returned.status \in {"success", "partial_success", "failed"}

C23_Witness ==
    /\ pc = "done"
    /\ Returned.status = "failed"
    /\ \E s \in Steps : spc[s] = "completed"

(* C24: when a workflow aborts after some steps have finished, the         *)
(* OrchestrationResult holds the Results obtained before the abort, and    *)
(* its overall_confidence is the mean confidence of those with status      *)
(* SUCCESS.                                                                *)
C24_AbortKeepsEarlierResults ==
    (pc = "done" /\ Returned.status = "failed") =>
        /\ Returned.agent_results = results
        /\ Returned.overall_confidence.num * OverallConfidence(results).den
               = OverallConfidence(results).num * Returned.overall_confidence.den

(* C25: a step whose task fails validation is attempted once in the run,   *)
(* even when retry_on_failure is true and max_retries > 0.                 *)
C25_InvalidTaskIsNotRetried ==
    \A s \in Steps : task[s].parameters = "invalid" => attempts[s] <= 1

(* C26: in parallel mode a wave is computed only when every step of the   *)
(* wave before it has returned its final Result, the results of a wave     *)
(* are recorded only when all its steps have returned, and a step that is  *)
(* dispatched sees in the results map the Result of every step of the      *)
(* earlier waves and no Result of its own wave.                            *)
C26_WavesAreStrictlySequenced ==
    [][pc = "parallel" =>
          /\ (ready_steps = <<>> /\ ready_steps' # <<>>) =>
                 \A s \in Steps : spc[s] \in {"pending", "completed"}
          /\ (ready_steps # <<>> /\ ready_steps' = <<>>) =>
                 \A i \in DOMAIN ready_steps :
                     spc[ready_steps[i]] \in {"returned", "raised"}
          /\ \A s \in Steps :
                 (spc[s] = "created" /\ spc'[s] = "running") =>
                     /\ \A i \in DOMAIN results :
                            \A j \in DOMAIN ready_steps :
                                results[i][2].task_id
                                    # Step(ready_steps[j]).step_id
                     /\ \A u \in Steps :
                            Step(u).step_id \in completed_steps =>
                                \E i \in DOMAIN results :
                                    results[i][2] = result[u]
      ]_vars

(* C27: in sequential mode the steps are dispatched one at a time in the  *)
(* order of workflow.steps, whatever their depends_on, and a step is       *)
(* dispatched only when every step before it in the list has returned its  *)
(* final Result.                                                           *)
C27_SequentialFollowsListOrder ==
    ~workflow.parallel_execution =>
        /\ \A s \in Steps :
               Dispatched(s) => \A u \in Steps : u < s => spc[u] = "completed"
        /\ Cardinality({s \in Steps :
                            spc[s] \in {"running", "backoff", "returned"}}) <= 1

C27_Witness ==
    /\ ~workflow.parallel_execution
    /\ Step(1).depends_on = {"s2"}
    /\ spc[1] = "completed"
    /\ attempts[1] >= 2
    /\ spc[2] = "running"

(* C28: the Result recorded for a step in the results map is the Result   *)
(* of the last attempt made for the step: the successful attempt if there  *)
(* was one, else the final failing one. No earlier attempt's Result is     *)
(* recorded, and every attempt of the step carries the step id as task id. *)
C28_LastAttemptIsRecorded ==
    \A s \in Steps :
        LET h == HistoryOf(s)
        IN  /\ Len(h) = attempts[s] - (IF spc[s] = "running" THEN 1 ELSE 0)
            /\ Dispatched(s) /\ Step(s).agent_id \in Agents
                   /\ spc[s] # "created" =>
                   task[s].task_id = Step(s).step_id
            /\ \A i \in DOMAIN results :
                   results[i][2].task_id = Step(s).step_id =>
                       /\ spc[s] = "completed"
                       /\ results[i][2] = Last(h)
                       /\ \A j \in 1..(Len(h) - 1) : h[j].status # SUCCESS

C28_Witness ==
    \E s \in Steps : \E i \in DOMAIN results :
        /\ results[i][2].task_id = Step(s).step_id
        /\ results[i][2].status = SUCCESS
        /\ attempts[s] >= 2

(* C29: an agent's status is RUNNING only while a process_task call on it *)
(* is in flight: whenever no call is in progress the status is not         *)
(* RUNNING, also after overlapping calls on the agent and after a call     *)
(* that was cancelled.                                                     *)
C29_RunningOnlyInFlight ==
    \A a \in Agents :
        (a = TheAgent => \A c \in Calls : ~InFlight(c)) => status[a] # RUNNING

C29_Witness ==
    /\ \A c \in Calls : ~InFlight(c)
    /\ calls[1].pc = "returned"
    /\ calls[2].pc = "cancelled"
    /\ calls[2].start_time
           < calls[1].start_time + calls[1].returned.execution_time

(* C30: when every process_task call returns, execute_workflow in         *)
(* parallel mode returns for every registered workflow, also one with      *)
(* cyclic or unresolvable dependencies or with an optional step whose      *)
(* dispatch raises.                                                        *)
C30_ParallelRunTerminates == (pc = "parallel") ~> (pc = "done")

(* C31: coordinate_agents returns a map in which every key is the        *)
(* agent_id of the AgentResult stored under it, with one entry for every   *)
(* requested agent that is registered; ids that are not registered are     *)
(* skipped and do not shift the other agents' results.                     *)
C31_ResultsAreKeyedByTheirAgent ==
    calls.pc = "returned" =>
        /\ \A i \in DOMAIN calls.agent_results :
               calls.agent_results[i][1] = calls.agent_results[i][2].agent_id
        /\ DictKeys(calls.agent_results)
               = {calls.agent_ids[i] : i \in DOMAIN calls.agent_ids} \cap Agents

(* C32: after a run that does not abort, the results map holds for every *)
(* step that was executed that step's final Result, whose task_id is the   *)
(* step id, also when several steps are bound to one agent.                *)
C32_EveryStepResultIsKept ==
    (pc = "done" /\ Returned.status # "failed") =>
        \A s \in Steps :
            Finished(s) =>
                \E i \in DOMAIN Returned.agent_results :
                    /\ Returned.agent_results[i][2] = result[s]
                    /\ Returned.agent_results[i][2].task_id = Step(s).step_id

(* C33: in a parallel run a step goes through its attempt loop at most     *)
(* once: a wave holds only steps that have no Result yet, and a step that  *)
(* has its final Result has made one attempt more than it has slept; when  *)
(* the run ends with every step completed, each step was executed once.    *)
C33_StepsRunOnceInParallel ==
    [][workflow.parallel_execution =>
          /\ (ready_steps = <<>> /\ ready_steps' # <<>>) =>
                 \A i \in DOMAIN ready_steps' :
                     /\ spc[ready_steps'[i]] = "pending"
                     /\ result[ready_steps'[i]] = NoResult
                     /\ attempts[ready_steps'[i]] = 0
          /\ \A s \in Steps :
                 Finished(s)' => attempts'[s] = Len(waits'[s]) + 1
          /\ (pc' = "done" /\ Cardinality(completed_steps') = NumSteps) =>
                 \A s \in Steps :
                     spc'[s] = "completed" /\ attempts'[s] = Len(waits'[s]) + 1
      ]_vars

C33_Witness ==
    /\ workflow.parallel_execution
    /\ pc = "done"
    /\ Cardinality(completed_steps) = NumSteps
    /\ Returned.status # "failed"
    /\ \E s \in Steps : attempts[s] >= 2
    /\ \E s \in Steps : Step(s).depends_on # {}

\* get_execution_history: the slice execution_history[-limit:].  Python
\* starts the slice at index -limit counted from the end, clamped to the
\* start of the list; -0 is 0, the start of the list.
GetExecutionHistory(limit) ==
    LET n == Len(execution_history)
        start == IF limit = 0 THEN 0
                 ELSE IF limit >= n THEN 0 ELSE n - limit
    IN  SubSeq(execution_history, start + 1, n)

\* the limits asked of get_execution_history
Limits == 0..MaxLimit

\* the min(limit, n) most recent entries of the history, oldest first
MostRecent(limit) ==
    LET n == Len(execution_history)
        k == IF limit < n THEN limit ELSE n
    IN  [i \in 1..k |-> execution_history[n - k + i]]

\* C34: get_execution_history(limit) returns the min(limit, n) most recent
\* of the n recorded OrchestrationResults, oldest first, for every
\* limit >= 0, and so an empty list for limit 0.
C34_HistoryReturnsTheLastLimit ==
    \A limit \in Limits : GetExecutionHistory(limit) = MostRecent(limit)

(* C35: every process_task call that returns appends exactly one           *)
(* AgentResult to the agent's task_history, the one it returns, whether    *)
(* it succeeded, failed, timed out or failed validation; tasks_completed   *)
(* is the number of calls that returned since construction or the last     *)
(* reset.                                                                  *)
C35_HistoryCountsTheCalls ==
    LET h == task_history[TheAgent]
        returned == {c \in Calls : calls[c].pc = "returned"}
    IN  /\ GetStatus(TheAgent).tasks_completed = Cardinality(returned)
        /\ \A c \in returned :
               Cardinality({i \in DOMAIN h : h[i] = calls[c].returned}) = 1
        /\ \A i \in DOMAIN h : \E c \in returned : h[i] = calls[c].returned
        /\ \A c \in Calls \ returned :
               \A i \in DOMAIN h : h[i].task_id # calls[c].task_id

C35_Witness ==
    /\ calls[1].pc = "erased"
    /\ calls[2].pc = "returned"
    /\ calls[2].valid = "false"
    /\ GetStatus(TheAgent).tasks_completed = 1

(* C36: while at least one process_task call on an agent is in flight the  *)
(* agent's status is RUNNING, also when two calls on the agent overlap and  *)
(* one of them ends first.                                                 *)
C36_RunningWhileInFlight ==
    (\E c \in Calls : InFlight(c)) => status[TheAgent] = RUNNING

====
